---- MODULE Spec2Model ----
(***************************************************************************)
(* prom.model.Orm: dirty-field tracking (modified_fields) and the          *)
(* persistence lifecycle insert / update / save / delete / hydrate /       *)
(* create of one Orm instance against one table.                           *)
(*                                                                         *)
(* The Schema, Field, Query and Interface collaborators (prom.config,      *)
(* prom.query, prom.interface) are modelled by the small definitions       *)
(* marked "collaborator" below.                                            *)
(***************************************************************************)
EXTENDS Integers, FiniteSets, Sequences, TLC

\* ---------------------------------------------------------------- bounds
MaxPk == 2      \* a primary key is None or in 0..MaxPk; the database generates 1..MaxPk
MaxTime == 1    \* utcnow() answers a timestamp in 1..MaxTime
MaxVal == 0     \* a normal field holds None or a number in 0..MaxVal

\* ---------------------------------------------------------------- values
None == -1                       \* Python None
Truthy(v) == v # None /\ v # 0   \* Python truth value of None / an integer

\* ---------------------------------------------------------------- schema
pk_name == "_id"
MagicFields == {"_id", "_created", "_updated"}
\* collaborator: the field a subclass declares, foo = Field(int, True)
SubclassFields == {"foo"}
\* collaborator: Schema.fields
FieldNames == MagicFields \cup SubclassFields
\* collaborator: Schema.normal_fields, the fields that are not magic
normal_fields == FieldNames \ MagicFields
\* collaborator: Schema.required_fields, the normal fields declared required
required_fields == {"foo"}
\* a name that is not a schema field
OtherNames == {"extra"}
AttrNames == FieldNames \cup OtherNames

PkVals == 0..MaxPk
Times == 1..MaxTime
Vals == 0..MaxVal
\* the values an attribute may be given
ValuesOf(name) ==
    IF name = pk_name THEN PkVals \cup {None}
    ELSE IF name \in MagicFields THEN Times \cup {None}
    ELSE IF name \in FieldNames THEN Vals \cup {None}
    ELSE {None}

\* the dicts {name: value} handed to the constructor, modify, hydrate and
\* create: the empty dict and the dicts of one entry
Dicts ==
    UNION { { d \in [S -> (PkVals \cup Times \cup Vals \cup {None})] :
                \A k \in S : d[k] \in ValuesOf(k) } :
            S \in { T \in SUBSET AttrNames : Cardinality(T) <= 1 } }

\* ---------------------------------------------------------------- state
VARIABLES
    self,   \* the Orm instance: [fields: schema field -> value, modified_fields: set of names]
    db,     \* the table: the keys in 1..MaxPk that a row holds
    op      \* the last call made on the instance and what it did

vars == <<self, db, op>>

\* ---------------------------------------------------------------- Orm
\* a freshly allocated object: every schema field reads None (Orm.fields)
blank == [fields |-> [k \in FieldNames |-> None], modified_fields |-> {}]

pk(o) == o.fields[pk_name]

is_modified(o) == Cardinality(o.modified_fields) > 0

reset_modified(o) == [o EXCEPT !.modified_fields = {}]

\* variant: assigning the primary key marks only the primary key
setattr_marks_only_the_field(o, field_name, field_val) ==
    [fields |-> IF field_name \in FieldNames
                THEN [o.fields EXCEPT ![field_name] = field_val]
                ELSE o.fields,
     modified_fields |-> IF field_name \in FieldNames
                         THEN o.modified_fields \cup {field_name}
                         ELSE o.modified_fields]

setattr(o, field_name, field_val) ==
    LET m == IF field_name \in FieldNames
             THEN IF field_name = pk_name
                  THEN (o.modified_fields \cup {field_name}) \cup normal_fields
                  ELSE o.modified_fields \cup {field_name}
             ELSE o.modified_fields
    IN [fields |-> IF field_name \in FieldNames
                   THEN [o.fields EXCEPT ![field_name] = field_val]
                   ELSE o.fields,
        modified_fields |-> m]

RECURSIVE modify_loop(_, _, _)
modify_loop(o, fields, todo) ==
    IF todo = {} THEN o
    ELSE LET field_name == CHOOSE k \in todo : TRUE
             in_schema == field_name \in FieldNames
             o2 == IF in_schema THEN setattr(o, field_name, fields[field_name]) ELSE o
         IN modify_loop(o2, fields, todo \ {field_name})

modify(o, fields) == modify_loop(o, fields, DOMAIN fields)

init(fields) == modify(reset_modified(blank), fields)

\* collaborator: Field.iget, the default getter hands the value through
iget(k, v) == v

\* variant: hydrate leaves the fields it was given marked as modified
hydrate_keeps_modified(fields) ==
    init([k \in (DOMAIN fields) \cup FieldNames |->
             IF k \in DOMAIN fields THEN fields[k] ELSE None])

hydrate(fields) ==
    LET full == [k \in (DOMAIN fields) \cup FieldNames |->
                    IF k \in FieldNames
                    THEN iget(k, IF k \in DOMAIN fields THEN fields[k] ELSE None)
                    ELSE fields[k]]
    IN reset_modified(init(full))

\* variant: populate does not reset the modification tracking
populate_keeps_modified(o, fields) == modify(o, fields)

populate(o, fields) ==
    LET got == [k \in DOMAIN fields |-> iget(k, fields[k])]
    IN reset_modified(modify(o, got))

\* Field.iset: the isetters of _created and _updated, the default for the rest
iset(k, val, is_update, is_mod, now) ==
    IF k = "_created" THEN (IF ~is_mod /\ ~is_update THEN now ELSE val)
    ELSE IF k = "_updated" THEN (IF ~is_mod THEN now ELSE val)
    ELSE val

isetval(o, k, is_update, now) ==
    iset(k, o.fields[k], is_update, k \in o.modified_fields, now)

\* variant: only the modified fields are gathered (Orm.get_modified), plus
\* the values the isetters generate
depopulate_modified_only(o, is_update, now) ==
    LET names == { k \in FieldNames :
                     /\ k \in o.modified_fields \cup {"_created", "_updated"}
                     /\ isetval(o, k, is_update, now) # None }
    IN [err |-> ~is_update /\ \E field_name \in required_fields : field_name \notin names,
        fields |-> [k \in names |-> isetval(o, k, is_update, now)]]

\* [err, fields]: err is TRUE when KeyError("Missing required field") is raised
depopulate(o, is_update, now) ==
    LET names == { k \in FieldNames : isetval(o, k, is_update, now) # None }
        fields == [k \in names |-> isetval(o, k, is_update, now)]
    IN [err |-> ~is_update /\ \E field_name \in required_fields : field_name \notin names,
        fields |-> fields]

\* ---------------------------------------------------------------- Query / Interface
\* the query a call hands to the interface: its kind, the names of the fields
\* set on it (Query.set_fields) and the key it selects or is answered with
NoQuery == [kind |-> "none", names |-> {}, pk |-> None]

\* the keys the database may answer an INSERT with: a key no row holds yet, or
\* None when it reports no key
KeyChoices(d) == {None} \cup ((1..MaxPk) \ d)

\* collaborator: Query.insert / Interface.insert. [err, db, pk]: a row that
\* names its key is stored under it and the key is answered, unless a row
\* holds that key already; a row stored under key 0 is not tracked in db
interface_insert(d, fields, key) ==
    IF key = None THEN [err |-> FALSE, db |-> d, pk |-> None]
    ELSE IF pk_name \in DOMAIN fields
    THEN IF fields[pk_name] \in d
         THEN [err |-> TRUE, db |-> d, pk |-> None]
         ELSE [err |-> FALSE, db |-> d \cup ({fields[pk_name]} \cap (1..MaxPk)),
               pk |-> fields[pk_name]]
    ELSE [err |-> FALSE, db |-> d \cup {key}, pk |-> key]

\* collaborator: Query.update / Interface.update, the number of rows written
interface_update(d, fields, where_pk) == IF where_pk \in d THEN 1 ELSE 0

\* collaborator: Query.delete / Interface.delete
interface_delete(d, where_pk) == d \ {where_pk}

\* what a call leaves behind: the instance, the table, what it returned or
\* raised, the methods save() called, the query it issued
Result(o, d, ret, q) == [o |-> o, db |-> d, ret |-> ret, calls |-> <<>>, q |-> q]

\* ---------------------------------------------------------------- lifecycle
\* variant: the query is issued although a required field is missing
insert_unchecked(o, d, now, key) ==
    LET dep == depopulate(o, FALSE, now)
        r == interface_insert(d, dep.fields, key)
        q == [kind |-> "insert", names |-> DOMAIN dep.fields, pk |-> r.pk]
        fields == [k \in (DOMAIN dep.fields) \cup {pk_name} |->
                      IF k = pk_name THEN r.pk ELSE dep.fields[k]]
    IN IF r.err THEN Result(o, d, "IntegrityError", q)
       ELSE IF Truthy(r.pk) THEN Result(populate(o, fields), r.db, "True", q)
       ELSE Result(o, r.db, "False", q)

insert(o, d, now, key) ==
    LET dep == depopulate(o, FALSE, now)
        r == interface_insert(d, dep.fields, key)
        q == [kind |-> "insert", names |-> DOMAIN dep.fields, pk |-> r.pk]
        fields == [k \in (DOMAIN dep.fields) \cup {pk_name} |->
                      IF k = pk_name THEN r.pk ELSE dep.fields[k]]
    IN IF dep.err THEN Result(o, d, "KeyError", NoQuery)
       ELSE IF r.err THEN Result(o, d, "IntegrityError", q)
       ELSE IF Truthy(r.pk) THEN Result(populate(o, fields), r.db, "True", q)
       ELSE Result(o, r.db, "False", q)

\* variant: the primary key is tested against None, not for truth
update_tests_none(o, d, now) ==
    LET dep == depopulate(o, TRUE, now)
        q == [kind |-> "update", names |-> DOMAIN dep.fields, pk |-> pk(o)]
    IN IF pk(o) = None THEN Result(o, d, "ValueError", NoQuery)
       ELSE IF Truthy(interface_update(d, dep.fields, pk(o)))
       THEN Result(populate(o, dep.fields), d, "True", q)
       ELSE Result(o, d, "False", q)

update(o, d, now) ==
    LET dep == depopulate(o, TRUE, now)
        q == [kind |-> "update", names |-> DOMAIN dep.fields, pk |-> pk(o)]
    IN IF ~Truthy(pk(o)) THEN Result(o, d, "ValueError", NoQuery)
       ELSE IF Truthy(interface_update(d, dep.fields, pk(o)))
       THEN Result(populate(o, dep.fields), d, "True", q)
       ELSE Result(o, d, "False", q)

\* variant: save updates whenever the primary key is set, modified or not
save_ignores_modified(o, d, now, key) ==
    IF Truthy(pk(o))
    THEN [update(o, d, now) EXCEPT !.calls = <<"update">>]
    ELSE [insert(o, d, now, key) EXCEPT !.calls = <<"insert">>]

save(o, d, now, key) ==
    LET pk0 == IF pk_name \notin o.modified_fields THEN pk(o) ELSE None
    IN IF Truthy(pk0)
       THEN [update(o, d, now) EXCEPT !.calls = <<"update">>]
       ELSE [insert(o, d, now, key) EXCEPT !.calls = <<"insert">>]

\* variant: the fields that still exist are found by truth, not by != None
delete_marks_truthy(o, d) ==
    LET o1 == reset_modified(setattr(o, pk_name, None))
        o2 == [o1 EXCEPT !.modified_fields =
                  { field_name \in FieldNames : Truthy(o1.fields[field_name]) }]
    IN IF Truthy(pk(o))
       THEN Result(o2, interface_delete(d, pk(o)), "True",
                   [kind |-> "delete", names |-> {}, pk |-> pk(o)])
       ELSE Result(o, d, "False", NoQuery)

\* variant: the primary key is tested against None, not for truth
delete_tests_none(o, d) ==
    LET o1 == reset_modified(setattr(o, pk_name, None))
        o2 == [o1 EXCEPT !.modified_fields =
                  { field_name \in FieldNames : o1.fields[field_name] # None }]
    IN IF pk(o) # None
       THEN Result(o2, interface_delete(d, pk(o)), "True",
                   [kind |-> "delete", names |-> {}, pk |-> pk(o)])
       ELSE Result(o, d, "False", NoQuery)

delete(o, d) ==
    LET o1 == reset_modified(setattr(o, pk_name, None))
        o2 == [o1 EXCEPT !.modified_fields =
                  { field_name \in FieldNames : o1.fields[field_name] # None }]
    IN IF Truthy(pk(o))
       THEN Result(o2, interface_delete(d, pk(o)), "True",
                   [kind |-> "delete", names |-> {}, pk |-> pk(o)])
       ELSE Result(o, d, "False", NoQuery)

Raised(ret) == ret \in {"KeyError", "ValueError", "IntegrityError"}

\* ---------------------------------------------------------------- actions
\* name: the call; ret, calls, q: see Result
Op(name, r) == [name |-> name, ret |-> r.ret, calls |-> r.calls, q |-> r.q]

Done(name, r) ==
    /\ self' = r.o
    /\ db' = r.db
    /\ op' = Op(name, r)

Init ==
    /\ self = init(<<>>)
    /\ db = {}
    /\ op = Op("init", Result(self, db, "None", NoQuery))

\* instance = cls(fields)
Construct == \E fields \in Dicts :
    Done("init", Result(init(fields), db, "None", NoQuery))

\* instance.<field_name> = field_val
SetAttr == \E field_name \in AttrNames : \E field_val \in ValuesOf(field_name) :
    Done("setattr", Result(setattr(self, field_name, field_val), db, "None", NoQuery))

\* instance.modify(fields)
Modify == \E fields \in Dicts :
    Done("modify", Result(modify(self, fields), db, "None", NoQuery))

\* instance = cls.hydrate(fields)
Hydrate == \E fields \in Dicts :
    Done("hydrate", Result(hydrate(fields), db, "None", NoQuery))

\* instance = cls.create(fields); when save() raises no instance is returned
Create == \E fields \in Dicts : \E now \in Times : \E key \in KeyChoices(db) :
    LET r == save(init(fields), db, now, key)
    IN Done("create", IF Raised(r.ret) THEN [r EXCEPT !.o = self] ELSE r)

Insert == \E now \in Times : \E key \in KeyChoices(db) :
    Done("insert", insert(self, db, now, key))

Update == \E now \in Times :
    Done("update", update(self, db, now))

Save == \E now \in Times : \E key \in KeyChoices(db) :
    Done("save", save(self, db, now, key))

Delete ==
    Done("delete", delete(self, db))

Next ==
    \/ Construct
    \/ SetAttr
    \/ Modify
    \/ Hydrate
    \/ Create
    \/ Insert
    \/ Update
    \/ Save
    \/ Delete

Spec == Init /\ [][Next]_vars

\* ---------------------------------------------------------------- properties
\* the call took the insert path
InsertPath(c) ==
    \/ c.name = "insert"
    \/ c.name \in {"save", "create"} /\ c.calls = <<"insert">>

\* some required field of the instance has no value to save
MissingRequired(o) == \E f \in required_fields : o.fields[f] = None

\* C1: save() calls update() exactly when the primary key is truthy and the
\* primary-key field is not in modified_fields, and insert() in every other
\* case; it calls exactly one of the two, issues no query of the other kind
\* and returns what the chosen operation returns.
C1_SaveChoosesByPkAndModified ==
    [][op'.name = "save" =>
        LET chooses_update ==
                Truthy(pk(self)) /\ pk_name \notin self.modified_fields
        IN /\ op'.calls = IF chooses_update THEN <<"update">> ELSE <<"insert">>
           /\ Len(op'.calls) = 1
           /\ op'.q.kind \in {"none", op'.calls[1]}
           /\ IF chooses_update
              THEN \E now \in Times :
                      LET r == update(self, db, now)
                      IN op'.ret = r.ret /\ self' = r.o /\ db' = r.db
              ELSE \E now \in Times : \E key \in KeyChoices(db) :
                      LET r == insert(self, db, now, key)
                      IN op'.ret = r.ret /\ self' = r.o /\ db' = r.db
    ]_vars

\* a save() of a loaded, unmodified-key instance went through update()
C1_Witness ==
    /\ op.name = "save"
    /\ op.calls = <<"update">>
    /\ op.ret = "True"
    /\ op.q.kind = "update"

\* C2: after an insert(), update(), save() or create() that succeeds,
\* modified_fields is empty and is_modified() is False; after a successful
\* insert the primary key is the (truthy) key the database answered; when
\* insert() or update() (also through save()) returns False, the instance
\* is as it was before the call.
C2_ModifiedTracksSinceLastPersistence ==
    [][/\ (op'.name \in {"insert", "update", "save", "create"} /\ op'.ret = "True")
            => /\ self'.modified_fields = {}
               /\ ~is_modified(self')
       /\ (InsertPath(op') /\ op'.ret = "True")
            => /\ pk(self') = op'.q.pk
               /\ Truthy(pk(self'))
       /\ (op'.name \in {"insert", "update", "save"} /\ op'.ret = "False")
            => self' = self
    ]_vars

\* an insert() of a modified instance succeeded
C2_Witness ==
    /\ op.name = "insert"
    /\ op.ret = "True"
    /\ self.fields["foo"] # None
    /\ pk(self) \in db
    /\ self.modified_fields = {}

C4_InsertRequiresRequiredFields ==
    [][/\ (op'.name = "insert" /\ MissingRequired(self))
            => op'.ret = "KeyError"
       /\ (op'.name = "save" /\ op'.calls = <<"insert">> /\ MissingRequired(self))
            => op'.ret = "KeyError"
       /\ op'.ret = "KeyError"
            => /\ InsertPath(op')
               /\ op'.q = NoQuery
               /\ db' = db
               /\ self' = self
       /\ op'.q.kind = "insert" => required_fields \subseteq op'.q.names
       /\ op'.name = "update"
            => /\ op'.ret # "KeyError"
               /\ Truthy(pk(self)) => op'.q.kind = "update"
    ]_vars

\* an insert() of a modified instance raised KeyError
C4_Witness ==
    /\ op.name = "insert"
    /\ op.ret = "KeyError"
    /\ MissingRequired(self)
    /\ self.modified_fields # {}
    /\ op.q = NoQuery

\* C5: update() of an instance whose primary key is None or falsy raises
\* ValueError, issues no query, and leaves the table and the instance
\* (modified_fields included) as they were.
C5_UpdateWithoutPkRaises ==
    [][(op'.name = "update" /\ ~Truthy(pk(self)))
          => /\ op'.ret = "ValueError"
             /\ op'.q = NoQuery
             /\ db' = db
             /\ self' = self
    ]_vars

\* an update() with primary key 0 raised ValueError
C5_Witness ==
    /\ op.name = "update"
    /\ op.ret = "ValueError"
    /\ pk(self) = 0
    /\ self.modified_fields # {}
    /\ db # {}

\* C6: hydrate() issues no query, leaves the table alone and returns an
\* instance with empty modified_fields, whatever it was given; a save()
\* right after hydrating a truthy primary key takes the update path.
C6_HydrateMarksNothingModified ==
    [][/\ op'.name = "hydrate"
            => /\ self'.modified_fields = {}
               /\ ~is_modified(self')
               /\ op'.q = NoQuery
               /\ db' = db
       /\ (op.name = "hydrate" /\ Truthy(pk(self)) /\ op'.name = "save")
            => /\ op'.calls = <<"update">>
               /\ op'.q.kind = "update"
    ]_vars

\* a stored row was hydrated with its primary key
C6_Witness ==
    /\ op.name = "hydrate"
    /\ Truthy(pk(self))
    /\ pk(self) \in db
    /\ self.modified_fields = {}

\* C7: delete() returns True exactly when the primary key is truthy, and
\* then issues the DELETE for that key; otherwise it returns False, issues
\* no query and leaves the table and the instance as they were.
C7_DeleteOnlyWithPk ==
    [][op'.name = "delete" =>
        /\ op'.ret = IF Truthy(pk(self)) THEN "True" ELSE "False"
        /\ Truthy(pk(self))
            => op'.q = [kind |-> "delete", names |-> {}, pk |-> pk(self)]
        /\ ~Truthy(pk(self))
            => /\ op'.q = NoQuery
               /\ db' = db
               /\ self' = self
    ]_vars

\* a delete() with primary key 0 returned False
C7_Witness ==
    /\ op.name = "delete"
    /\ op.ret = "False"
    /\ pk(self) = 0
    /\ self.modified_fields # {}
    /\ db # {}

\* C8: after a delete() that returns True no row holds the old key, the
\* primary key is None and modified_fields is exactly the set of schema
\* fields whose value is not None; a save() right after takes the insert
\* path and, when it succeeds, stores the record under the key the database
\* answers, which no row held; a delete() right after returns False.
C8_DeleteThenSaveReinserts ==
    [][/\ (op'.name = "delete" /\ op'.ret = "True")
            => /\ pk(self) \notin db'
               /\ pk(self') = None
               /\ self'.modified_fields =
                     { k \in FieldNames : self'.fields[k] # None }
               /\ pk_name \notin self'.modified_fields
       /\ (op.name = "delete" /\ op.ret = "True" /\ op'.name = "save")
            => /\ op'.calls = <<"insert">>
               /\ op'.q.kind # "update"
               /\ op'.ret = "True"
                    => /\ pk(self') = op'.q.pk
                       /\ pk(self') \in db' \ db
       /\ (op.name = "delete" /\ op.ret = "True" /\ op'.name = "delete")
            => /\ op'.ret = "False"
               /\ db' = db
    ]_vars

\* a stored record with a falsy-but-set field was deleted
C8_Witness ==
    /\ op.name = "delete"
    /\ op.ret = "True"
    /\ op.q.pk \notin db
    /\ self.fields["foo"] = 0
    /\ self.modified_fields = {"foo", "_created", "_updated"}

\* the names an assignment of k marks as modified
Dirtied(k) ==
    IF k = pk_name THEN {pk_name} \cup normal_fields
    ELSE IF k \in FieldNames THEN {k}
    ELSE {}

\* C9: whatever the instance holds, assigning the primary key (attribute
\* assignment, modify() or the constructor) leaves the primary key and every
\* normal field in modified_fields, assigning another schema field adds that
\* field only, assigning a name outside the schema adds nothing; once the
\* primary key is assigned the next save() takes the insert path; and the
\* primary key is never in modified_fields without every normal field.
C9_PkAssignmentMarksEverythingDirty ==
    /\ \A k \in AttrNames : \A v \in ValuesOf(k) :
          LET o == setattr(self, k, v)
          IN /\ o.modified_fields = self.modified_fields \cup Dirtied(k)
             /\ k = pk_name
                  => \A now \in Times : \A key \in KeyChoices(db) :
                        LET r == save(o, db, now, key)
                        IN r.calls = <<"insert">> /\ r.q.kind # "update"
    /\ \A fields \in Dicts :
          LET dirtied == UNION { Dirtied(k) : k \in DOMAIN fields }
              o == modify(self, fields)
              n == init(fields)
          IN /\ o.modified_fields = self.modified_fields \cup dirtied
             /\ n.modified_fields = dirtied
             /\ pk_name \in DOMAIN fields
                  => \A now \in Times : \A key \in KeyChoices(db) :
                        /\ save(o, db, now, key).calls = <<"insert">>
                        /\ save(n, db, now, key).calls = <<"insert">>
    /\ pk_name \in self.modified_fields => normal_fields \subseteq self.modified_fields

\* the key of a stored row was assigned and save() issued an INSERT
C9_Witness ==
    /\ op.name = "save"
    /\ op.calls = <<"insert">>
    /\ op.q.kind = "insert"
    /\ pk_name \in self.modified_fields
    /\ Truthy(pk(self))
    /\ pk(self) \in db
    /\ op.ret = "IntegrityError"

====
